---- MODULE Spec2Model ----
(***************************************************************************)
(* Model of the guardian camera monitor: the per-camera pipeline made of   *)
(* Tracker (tracker.py), LingerDetector (linger_detector.py) and           *)
(* AlertManager (alert_manager.py), as driven by the run loop of           *)
(* CameraThread (main.py).                                                 *)
(*                                                                         *)
(* Time is counted in whole units.  Python's time.monotonic() is the       *)
(* variable mono: a reading returns any value from the last reading on.    *)
(***************************************************************************)
EXTENDS Integers, Sequences, FiniteSets, TLC

VARIABLES
    \* configuration, fixed at construction
    roi,               \* LingerDetector.roi
    linger_time,       \* LingerDetector.linger_time
    dist_threshold,    \* Tracker.dist_threshold
    max_missing_frames, \* Tracker.max_missing_frames
    general_cooldown,  \* AlertManager.general_cooldown
    \* Tracker state and the last update call
    tracks,            \* Tracker.tracks in dict order: records [id, centroid, box, label, confidence, missing]
    next_id,           \* Tracker.next_id
    out,               \* the list the last Tracker.update returned
    lastDets,          \* the detections of the last Tracker.update call
    assigned,          \* per detection of that call, the id it was given (tid at line 49)
    tiedLow,           \* per detection of that call, the lowest id among two or more nearest tracks (NoId if no tie)
    allocLog,          \* every id handed out at lines 44-45, in order
    prevNextId,        \* next_id when that call started
    prevTracks,        \* Tracker.tracks when that call started
    persistRun,        \* calls of Tracker.update since construction, while all of them passed the same single detection (NoId once not)
    emptyRun,          \* calls of Tracker.update in a row, up to the last one, that passed an empty list
    lastMatched,       \* per track: the detection stored for it by the last call that gave it one
    evicted,           \* [id, centroid] of every track that entered a call with missing = max_missing_frames and was given no detection
    \* LingerDetector state and the last update call
    objects_in_roi,    \* LingerDetector.objects_in_roi: id -> [enter_time, alert_emitted]
    events,            \* the list the last LingerDetector.update returned
    lastTracked,       \* the tracked list of the last LingerDetector.update call
    lastNow,           \* the now argument of the last LingerDetector.update call
    lastEff,           \* the value of the local now after line 25 in that call
    preIds,            \* the keys of objects_in_roi when that call started
    preRecs,           \* the records that call found for the objects it saw inside the ROI
    epEmits,           \* per residency record: events emitted since the record was created
    epQualified,       \* per residency record: some call since its creation found the dwell qualifying
    lastInside,        \* per id ever seen: was its centroid inside the ROI when last seen
    \* AlertManager state and the last evaluate call
    last_general,      \* AlertManager.last_general
    alerts,            \* the list the last AlertManager.evaluate returned
    lastGeneralArg,    \* the general argument of that call
    lastLingerArg,     \* the linger argument of that call
    lastTimestamp,     \* the timestamp argument of that call
    lastEffTimestamp,  \* the value of the local timestamp after line 27 in that call
    generalTimes,      \* the timestamp argument of the last two calls that returned a general alert, oldest first
    prevLastGeneral,   \* last_general when that call started
    callLog,           \* the first calls of evaluate since construction: [timestamp, candidates, alerted]
    \* CameraThread
    last_detections,   \* CameraThread.last_detections
    scenario,          \* how many ticks so far replayed the end-to-end scenario (NoId once off it)
    clockReads,        \* components that called time.monotonic() in the last call or tick
    \* the system clock
    mono,              \* last value returned by time.monotonic()
    \* several CameraThreads side by side
    heap,              \* the component objects created so far: [kind, ...the object's fields]
    threads,           \* camera -> [tracker, linger, alert_mgr: index in heap; last_detections]
    lastCam,           \* the camera whose loop body ran last (0 before any)
    \* CameraThread.run, statement by statement
    pc,                \* the statement of run the thread is about to execute
    stop_event,        \* threading.Event shared with main: is it set
    display_flag,      \* CameraThread.display_flag
    runLocals,         \* the locals of run: [now, detections, tracked, linger_events]
    tickCalls,         \* the calls made so far by the pass of the loop body that last obtained a frame
    stopAt,            \* the statement run was at when stop_event was set ("" while clear)
    \* main creating the CameraThread of a camera
    cam_cfg,           \* the camera's configuration: [roi, linger_time_seconds, alert_cooldown_seconds, display]
    ctorState,         \* "new" before CameraThread(...), then "built" or "raised", "exited" once main has ended
    raised,            \* the exception CameraThread.__init__ raised: [type, line], NoException if none
    \* CameraManager
    camera_built,      \* CameraManager(...) has been called
    cap_open,          \* CameraManager.cap is not None
    last_attempt,      \* CameraManager.last_attempt
    reconnect_interval, \* CameraManager.reconnect_interval
    wall,              \* last value returned by time.time()
    attempts,          \* the values of last_attempt set by the last two calls of _connect, oldest first
    failedAt,          \* when the read failed that closed the capture (NoTime while none did since it was opened)
    lastRead           \* the last read_frame call: [t, connected_before, attempted, failed, result, since_fail]

lingerVars == <<objects_in_roi, events, lastTracked, lastNow, lastEff, preIds, preRecs,
                epEmits, epQualified, lastInside>>
trackerVars == <<tracks, next_id, out, lastDets, assigned, tiedLow, allocLog, prevNextId,
                 prevTracks, evicted, persistRun, emptyRun, lastMatched>>
alertVars == <<last_general, alerts, lastGeneralArg, lastLingerArg, lastTimestamp,
               prevLastGeneral, callLog, lastEffTimestamp, generalTimes>>
threadVars == <<last_detections, scenario>>
configVars == <<roi, linger_time, dist_threshold, max_missing_frames, general_cooldown>>
camerasVars == <<heap, threads, lastCam>>
runVars == <<pc, stop_event, display_flag, runLocals, tickCalls, stopAt>>
ctorVars == <<cam_cfg, ctorState, raised>>
camVars == <<camera_built, cap_open, last_attempt, reconnect_interval, wall, attempts, failedAt,
             lastRead>>
otherVars == <<camerasVars, runVars, ctorVars, camVars>>
vars == <<configVars, trackerVars, lingerVars, alertVars, threadVars, clockReads, mono,
          otherVars>>

----------------------------------------------------------------------------
(* Bounds of the model *)

MaxTime == 3          \* timestamps and clock readings range over 0..MaxTime
MaxLinger == 2        \* linger_time ranges over 0..MaxLinger
MaxTracked == 2       \* longest tracked list handed to LingerDetector.update
NumIds == 2           \* track ids 0..NumIds-1 appear in those lists
MaxDets == 2          \* longest detection list handed to Tracker.update
MaxAlloc == 3         \* Tracker.update is called with lists that keep next_id within MaxAlloc
MaxMissing == 1       \* max_missing_frames ranges over 0..MaxMissing
MaxCooldown == 2      \* general_cooldown ranges over 0..MaxCooldown
MaxLog == 3           \* callLog keeps the first MaxLog calls of evaluate
MaxRunTime == 5       \* the clock of a running CameraThread ranges over 0..MaxRunTime
MaxSkew == 1          \* the clock advances at most MaxSkew between two reads of one tick
MaxPersist == 3       \* persistRun counts up to MaxPersist calls
MaxCamTime == 3       \* the clock of the two-camera runs ranges over 0..MaxCamTime
MaxCamAlloc == 1      \* each of the two cameras' trackers keeps next_id within MaxCamAlloc
MaxEmptyRun == 3      \* emptyRun counts up to MaxEmptyRun calls
MaxWall == 4          \* time.time() ranges over 0..MaxWall
MaxInterval == 2      \* reconnect_interval ranges over 1..MaxInterval
MaxMissingLong == 3   \* max_missing_frames of the trackers with a longer tolerance ranges over 0..MaxMissingLong
MaxClock == 1         \* the clock read by Tracker.update called directly ranges over 0..MaxClock
MaxLoopTime == 3      \* the clock of the statement-by-statement run ranges over 0..MaxLoopTime
MaxLoopAlloc == 2     \* the tracker of that run keeps next_id within MaxLoopAlloc

Times == 0..MaxTime
Ids == 0..(NumIds - 1)

----------------------------------------------------------------------------
(* Geometry: boxes are <<x1, y1, x2, y2>> *)

BoxMid   == <<140, 140, 160, 160>>   \* centroid (150,150)
BoxLeft  == <<100, 140, 120, 160>>   \* centroid (110,150)
BoxRight == <<180, 140, 200, 160>>   \* centroid (190,150)
BoxEdge  == <<190, 190, 211, 211>>   \* centroid (200,200): 401 // 2 = 200
BoxOut   == <<201, 140, 221, 161>>   \* centroid (211,150)
BoxFar   == <<300, 300, 320, 320>>   \* centroid (310,310)

DefaultRoi == <<100, 100, 200, 200>>

\* Python's None for an ROI that is not configured (LingerConfig.roi)
NoRoi == <<>>

\* no exception was raised
NoException == [type |-> "", line |-> 0]

\* Python's None for a time that was never recorded
NoTime == -1

\* no read_frame call was made yet
NoRead == [t |-> 0, connected_before |-> TRUE, attempted |-> FALSE, failed |-> FALSE,
           result |-> "", since_fail |-> NoTime]

Centroid(box) == <<(box[1] + box[3]) \div 2, (box[2] + box[4]) \div 2>>

\* line 32 with <: a centroid on an edge of the ROI is outside
InRoiStrict(r, box) ==
    LET c == Centroid(box)
    IN  r[1] < c[1] /\ c[1] < r[3] /\ r[2] < c[2] /\ c[2] < r[4]

\* line 32: x1 <= cx <= x2 and y1 <= cy <= y2
InRoi(r, box) ==
    LET c == Centroid(box)
    IN  r[1] <= c[1] /\ c[1] <= r[3] /\ r[2] <= c[2] /\ c[2] <= r[4]

----------------------------------------------------------------------------
(* Tracker *)

NoId == -1     \* Python's None for best_id

\* math.hypot(cx - tx, cy - ty) is compared through its square: for the integer
\* centroids used here hypot is strictly increasing in dx*dx + dy*dy
Dist2(c, t) == (c[1] - t[1]) * (c[1] - t[1]) + (c[2] - t[2]) * (c[2] - t[2])

\* line 40 with <=: a later track at the same distance replaces the earlier
CloserOrEqual(d2, best2) == d2 <= best2

\* line 40 never taken: no track is ever close enough
CloserNever(d2, best2) == FALSE

\* line 40: d < best_dist
Closer(d2, best2) == d2 < best2

\* lines 37-41: the scan of self.tracks.items() in dict order, from index k on
RECURSIVE BestMatch(_, _, _, _, _)
BestMatch(trks, k, c, best_id, best2) ==
    IF k > Len(trks) THEN best_id
    ELSE LET d2 == Dist2(c, trks[k].centroid)
         IN  IF Closer(d2, best2)
             THEN BestMatch(trks, k + 1, c, trks[k].id, d2)
             ELSE BestMatch(trks, k + 1, c, best_id, best2)

\* line 45 without the increment
NextIdStuck(n) == n

\* line 45: self.next_id += 1
NextIdAfter(n) == n + 1

\* line 49 as updated.setdefault(tid, rec): the first record stored under a key stays
DictSetFirstWins(d, rec) ==
    IF \E k \in 1..Len(d) : d[k].id = rec.id THEN d ELSE Append(d, rec)

\* updated[tid] = rec on a dict kept in insertion order: an existing key keeps
\* its position, a new key goes last
DictSet(d, rec) ==
    IF \E k \in 1..Len(d) : d[k].id = rec.id
    THEN [k \in 1..Len(d) |-> IF d[k].id = rec.id THEN rec ELSE d[k]]
    ELSE Append(d, rec)

\* lines 49-55 with line 54 storing a counter that is not reset
TrackRecordNoReset(tid, det) ==
    [id |-> tid, centroid |-> Centroid(det.box), box |-> det.box,
     label |-> det.label, confidence |-> det.confidence, missing |-> 1]

\* lines 49-55: the record stored for a detection
TrackRecord(tid, det) ==
    [id |-> tid, centroid |-> Centroid(det.box), box |-> det.box,
     label |-> det.label, confidence |-> det.confidence, missing |-> 0]

\* line 37 scanning the tracks stored so far by the call as well
CandidatesLive(trks, updated) == trks \o updated

\* line 37: the scan is over self.tracks, which the call replaces only at line
\* 65; the dict updated that the call is filling is not looked at
Candidates(trks, updated) == trks

\* lines 32-56: the loop over the detections, from index k on;
\* st = [updated, used, next_id, assigned, fresh]
RECURSIVE AssociateLoop(_, _, _, _, _)
AssociateLoop(st, trks, dets, k, thr) ==
    IF k > Len(dets) THEN st
    ELSE LET det  == dets[k]
             best == BestMatch(Candidates(trks, st.updated), 1, Centroid(det.box), NoId,
                               thr * thr)
             tid  == IF best = NoId THEN st.next_id ELSE best
             nx   == [updated  |-> DictSet(st.updated, TrackRecord(tid, det)),
                      used     |-> st.used \cup {tid},
                      next_id  |-> IF best = NoId THEN NextIdAfter(st.next_id) ELSE st.next_id,
                      assigned |-> Append(st.assigned, tid),
                      fresh    |-> IF best = NoId THEN Append(st.fresh, tid) ELSE st.fresh]
         IN  AssociateLoop(nx, trks, dets, k + 1, thr)

\* line 62 always true: no track is ever dropped
RetainedAlways(missing, maxMissing) == TRUE

\* line 62 with <: a track is dropped one call early
RetainedStrict(missing, maxMissing) == missing < maxMissing

\* line 62: tr['missing'] <= self.max_missing_frames
Retained(missing, maxMissing) == missing <= maxMissing

\* line 61 left out: the counter of an unmatched track stays as it is
MissedNever(tr) == tr

\* line 61 adding two
MissedTwice(tr) == [tr EXCEPT !.missing = @ + 2]

\* line 61: tr['missing'] += 1
MissedOnce(tr) == [tr EXCEPT !.missing = @ + 1]

\* lines 59-63: the loop over the old tracks, from index k on
RECURSIVE MissingLoop(_, _, _, _, _)
MissingLoop(updated, trks, k, used, maxMissing) ==
    IF k > Len(trks) THEN updated
    ELSE LET tr == MissedOnce(trks[k])
             nx == IF trks[k].id \notin used /\ Retained(tr.missing, maxMissing)
                   THEN DictSet(updated, tr)
                   ELSE updated
         IN  MissingLoop(nx, trks, k + 1, used, maxMissing)

\* lines 70-77 skipping the tracks that were given no detection in this call
TrackerOutputMatchedOnly(trks, clk) ==
    LET seen == SelectSeq(trks, LAMBDA tr : tr.missing = 0)
    IN  [k \in 1..Len(seen) |->
            [id |-> seen[k].id, box |-> seen[k].box, label |-> seen[k].label,
             confidence |-> seen[k].confidence, last_seen |-> clk]]

\* lines 68-77: the output list, stamped with the clock reading of line 68
TrackerOutput(trks, clk) ==
    [k \in 1..Len(trks) |->
        [id |-> trks[k].id, box |-> trks[k].box, label |-> trks[k].label,
         confidence |-> trks[k].confidence, last_seen |-> clk]]

\* Tracker.update: returns [tracks, next_id, assigned, fresh]
TrackerUpdate(trks, nid, dets, thr, maxMissing) ==
    LET a == AssociateLoop([updated |-> <<>>, used |-> {}, next_id |-> nid,
                            assigned |-> <<>>, fresh |-> <<>>], trks, dets, 1, thr)
    IN  [tracks   |-> MissingLoop(a.updated, trks, 1, a.used, maxMissing),
         next_id  |-> a.next_id,
         assigned |-> a.assigned,
         fresh    |-> a.fresh]

SetMin(S) == CHOOSE x \in S : \A y \in S : x <= y

SetMax(S) == CHOOSE x \in S : \A y \in S : x >= y

\* the lowest id among the tracks nearest to centroid c within the threshold,
\* when two or more tracks are at that nearest distance; NoId otherwise
TiedLowest(trks, c, thr) ==
    LET near == {k \in 1..Len(trks) : Dist2(c, trks[k].centroid) < thr * thr}
        best == {k \in near : \A j \in near :
                    Dist2(c, trks[k].centroid) <= Dist2(c, trks[j].centroid)}
    IN  IF Cardinality(best) >= 2 THEN SetMin({trks[k].id : k \in best}) ELSE NoId

----------------------------------------------------------------------------
(* LingerDetector *)

\* line 25: now = now or time.monotonic(); 0 is falsy
EffectiveNow(now, clk) == IF now = 0 THEN clk ELSE now

ReadsClock(now) == now = 0

\* line 39, the dwell comparison
QualifiesGE(duration, threshold) == duration >= threshold

Qualifies(duration, threshold) == duration > threshold

LingerEvent(obj, duration) ==
    [id |-> obj.id, duration |-> duration, box |-> obj.box, label |-> obj.label]

\* lines 39-48 with line 48 left out: the flag is never set
LingerInsideNoFlag(st, obj, now, lt) ==
    IF obj.id \notin DOMAIN st.recs
    THEN [st EXCEPT !.recs = [i \in DOMAIN st.recs \cup {obj.id} |->
                 IF i = obj.id THEN [enter_time |-> now, alert_emitted |-> FALSE]
                 ELSE st.recs[i]]]
    ELSE LET d == now - st.recs[obj.id].enter_time
         IN  IF Qualifies(d, lt) /\ ~st.recs[obj.id].alert_emitted
             THEN [st EXCEPT !.evs = Append(st.evs, LingerEvent(obj, d))]
             ELSE st

\* lines 39-48 without the alert_emitted gate: emits on every qualifying call
LingerInsideAlways(st, obj, now, lt) ==
    IF obj.id \notin DOMAIN st.recs
    THEN [st EXCEPT !.recs = [i \in DOMAIN st.recs \cup {obj.id} |->
                 IF i = obj.id THEN [enter_time |-> now, alert_emitted |-> FALSE]
                 ELSE st.recs[i]]]
    ELSE LET d == now - st.recs[obj.id].enter_time
         IN  IF Qualifies(d, lt)
             THEN [recs |-> [st.recs EXCEPT ![obj.id].alert_emitted = TRUE],
                   evs  |-> Append(st.evs, LingerEvent(obj, d))]
             ELSE st

\* lines 33-48: the object is inside the ROI
LingerInside(st, obj, now, lt) ==
    IF obj.id \notin DOMAIN st.recs
    THEN [st EXCEPT !.recs = [i \in DOMAIN st.recs \cup {obj.id} |->
                 IF i = obj.id THEN [enter_time |-> now, alert_emitted |-> FALSE]
                 ELSE st.recs[i]]]
    ELSE LET d == now - st.recs[obj.id].enter_time
         IN  IF Qualifies(d, lt) /\ ~st.recs[obj.id].alert_emitted
             THEN [recs |-> [st.recs EXCEPT ![obj.id].alert_emitted = TRUE],
                   evs  |-> Append(st.evs, LingerEvent(obj, d))]
             ELSE st

\* lines 49-53 with the record kept on exit
LingerOutsideKeep(st, obj) == st

\* lines 49-53: the object is outside the ROI
LingerOutside(st, obj) ==
    IF obj.id \in DOMAIN st.recs
    THEN [st EXCEPT !.recs = [i \in DOMAIN st.recs \ {obj.id} |-> st.recs[i]]]
    ELSE st

\* lines 29-53: the loop over the tracked list, from index k on
RECURSIVE LingerLoop(_, _, _, _, _, _)
LingerLoop(st, tracked, k, now, r, lt) ==
    IF k > Len(tracked) THEN st
    ELSE LET obj == tracked[k]
             nx  == IF InRoi(r, obj.box)
                    THEN LingerInside(st, obj, now, lt)
                    ELSE LingerOutside(st, obj)
         IN  LingerLoop(nx, tracked, k + 1, now, r, lt)

\* LingerDetector.update after line 25: returns [recs, evs]
LingerUpdate(recs, tracked, now, r, lt) ==
    LingerLoop([recs |-> recs, evs |-> <<>>], tracked, 1, now, r, lt)

----------------------------------------------------------------------------
(* AlertManager *)

Alert(type, objects) == [type |-> type, objects |-> objects]

\* lines 30-33 as a single alert carrying all the events
LingerAlertsBatched(linger) ==
    IF Len(linger) = 0 THEN <<>> ELSE <<Alert("linger", linger)>>

\* lines 30-33: one linger alert per event, in order
LingerAlerts(linger) == [k \in 1..Len(linger) |-> Alert("linger", <<linger[k]>>)]

\* line 36 with the cooldown test strict
CooldownElapsedStrict(timestamp, last, cooldown) == timestamp - last > cooldown

\* line 36: timestamp - self.last_general >= self.general_cooldown
CooldownElapsed(timestamp, last, cooldown) == timestamp - last >= cooldown

\* line 36: a non-empty list is truthy
GeneralFires(general, timestamp, last, cooldown) ==
    Len(general) > 0 /\ CooldownElapsed(timestamp, last, cooldown)

\* lines 35-39 guarded by "not linger": linger events suppress the general alert
EvaluateLingerFirst(last, general, linger, timestamp, cooldown) ==
    IF Len(linger) = 0 /\ GeneralFires(general, timestamp, last, cooldown)
    THEN [alerts |-> Append(LingerAlerts(linger), Alert("general", general)),
          last_general |-> timestamp]
    ELSE [alerts |-> LingerAlerts(linger), last_general |-> last]

\* line 39 moved out of the if: every call stamps last_general
EvaluateStampAlways(last, general, linger, timestamp, cooldown) ==
    IF GeneralFires(general, timestamp, last, cooldown)
    THEN [alerts |-> Append(LingerAlerts(linger), Alert("general", general)),
          last_general |-> timestamp]
    ELSE [alerts |-> LingerAlerts(linger), last_general |-> timestamp]

\* AlertManager.evaluate after line 27: returns [alerts, last_general]
Evaluate(last, general, linger, timestamp, cooldown) ==
    IF GeneralFires(general, timestamp, last, cooldown)
    THEN [alerts |-> Append(LingerAlerts(linger), Alert("general", general)),
          last_general |-> timestamp]
    ELSE [alerts |-> LingerAlerts(linger), last_general |-> last]

HasGeneral(als) == \E k \in 1..Len(als) : als[k].type = "general"

----------------------------------------------------------------------------
(* Inputs of LingerDetector.update: lists of tracked objects with distinct *)
(* ids, as Tracker.update returns them                                     *)

LingerBoxes == {BoxMid, BoxEdge, BoxOut}
Labels == {"person", "dog"}

\* the label a track carries in these lists: even ids are persons, odd ids dogs
LabelOfId(id) == IF id % 2 = 0 THEN "person" ELSE "dog"

TrackedObjects ==
    {[id |-> i, box |-> b, label |-> LabelOfId(i), confidence |-> 90, last_seen |-> 0] :
        i \in Ids, b \in LingerBoxes}

DistinctIds(s) == \A i, j \in 1..Len(s) : i # j => s[i].id # s[j].id

TrackedLists ==
    {s \in UNION {[1..n -> TrackedObjects] : n \in 0..MaxTracked} : DistinctIds(s)}

IdsOf(s) == {s[i].id : i \in 1..Len(s)}

ObjOf(s, id) == s[CHOOSE i \in 1..Len(s) : s[i].id = id]

HasEvent(evs, id) == \E i \in 1..Len(evs) : evs[i].id = id

CountEvents(evs, id) == Cardinality({i \in 1..Len(evs) : evs[i].id = id})

Min2(a, b) == IF a < b THEN a ELSE b

\* did the call on (recs, obj, now) find obj with a record, inside, dwell qualifying
DwellQualifies(recs, obj, now, r, lt) ==
    /\ obj.id \in DOMAIN recs
    /\ InRoi(r, obj.box)
    /\ Qualifies(now - recs[obj.id].enter_time, lt)

----------------------------------------------------------------------------
(* Inputs of Tracker.update: lists of detections as ObjectDetector.detect  *)
(* returns them                                                            *)

DefaultDistThreshold == 50

Detection(box, label, confidence) ==
    [box |-> box, label |-> label, confidence |-> confidence]

DetPool ==
    {Detection(BoxMid, "person", 90), Detection(BoxLeft, "person", 80),
     Detection(BoxRight, "dog", 70), Detection(BoxFar, "dog", 60)}

DetLists == UNION {[1..n -> DetPool] : n \in 0..MaxDets}

----------------------------------------------------------------------------
(* The effect of one call on the variables of each component               *)

\* Tracker.update(dets), whose line 68 reads clk from the clock
TrackerEffect(dets, clk) ==
    \E res \in {TrackerUpdate(tracks, next_id, dets, dist_threshold, max_missing_frames)} :
        /\ tracks' = res.tracks
        /\ next_id' = res.next_id
        /\ out' = TrackerOutput(res.tracks, clk)
        /\ lastDets' = dets
        /\ assigned' = res.assigned
        /\ tiedLow' = [k \in 1..Len(dets) |->
                          TiedLowest(tracks, Centroid(dets[k].box), dist_threshold)]
        /\ allocLog' = allocLog \o res.fresh
        /\ prevNextId' = next_id
        /\ prevTracks' = tracks
        /\ persistRun' = IF persistRun = 0 /\ Len(dets) = 1 THEN 1
                          ELSE IF persistRun >= 1 /\ dets = lastDets
                               THEN Min2(persistRun + 1, MaxPersist)
                               ELSE NoId
        /\ emptyRun' = IF dets = <<>> THEN Min2(emptyRun + 1, MaxEmptyRun) ELSE 0
        /\ lastMatched' =
              [i \in {res.tracks[k].id : k \in 1..Len(res.tracks)} |->
                  IF \E k \in 1..Len(dets) : res.assigned[k] = i
                  THEN dets[SetMax({k \in 1..Len(dets) : res.assigned[k] = i})]
                  ELSE lastMatched[i]]
        /\ evicted' = evicted \cup
              {[id |-> tracks[t].id, centroid |-> tracks[t].centroid] :
                  t \in {u \in 1..Len(tracks) :
                            /\ tracks[u].missing = max_missing_frames
                            /\ \A k \in 1..Len(res.assigned) : res.assigned[k] # tracks[u].id}}

\* LingerDetector.update(tracked, now), whose line 25 reads clk when now is falsy
LingerEffect(tracked, now, clk) ==
    \E res \in {LingerUpdate(objects_in_roi, tracked, EffectiveNow(now, clk), roi, linger_time)} :
    LET eff == EffectiveNow(now, clk)
        kept == DOMAIN res.recs
        fresh(i) == i \notin DOMAIN objects_in_roi
    IN  /\ objects_in_roi' = res.recs
        /\ events' = res.evs
        /\ lastTracked' = tracked
        /\ lastNow' = now
        /\ lastEff' = eff
        /\ preIds' = DOMAIN objects_in_roi
        /\ preRecs' = [i \in {j \in IdsOf(tracked) \cap DOMAIN objects_in_roi :
                                InRoi(roi, ObjOf(tracked, j).box)} |-> objects_in_roi[i]]
        /\ epEmits' = [i \in kept |->
              Min2(2, (IF fresh(i) THEN 0 ELSE epEmits[i]) + CountEvents(res.evs, i))]
        /\ epQualified' = [i \in kept |->
              \/ (~fresh(i) /\ epQualified[i])
              \/ (i \in IdsOf(tracked) /\
                  DwellQualifies(objects_in_roi, ObjOf(tracked, i), eff, roi, linger_time))]
        /\ lastInside' = [i \in DOMAIN lastInside \cup IdsOf(tracked) |->
              IF i \in IdsOf(tracked) THEN InRoi(roi, ObjOf(tracked, i).box)
              ELSE lastInside[i]]

\* AlertManager.evaluate(general, linger, timestamp), whose line 27 reads clk when
\* timestamp is falsy
AlertEffect(general, linger, timestamp, clk) ==
    \E res \in {Evaluate(last_general, general, linger, EffectiveNow(timestamp, clk),
                         general_cooldown)} :
        /\ last_general' = res.last_general
        /\ alerts' = res.alerts
        /\ lastGeneralArg' = general
        /\ lastLingerArg' = linger
        /\ lastTimestamp' = timestamp
        /\ prevLastGeneral' = last_general
        /\ lastEffTimestamp' = EffectiveNow(timestamp, clk)
        /\ generalTimes' = IF HasGeneral(res.alerts)
                            THEN IF Len(generalTimes) = 0
                                 THEN <<timestamp>>
                                 ELSE <<generalTimes[Len(generalTimes)], timestamp>>
                            ELSE generalTimes
        /\ callLog' = IF Len(callLog) < MaxLog
                       THEN Append(callLog, [timestamp |-> timestamp,
                                             candidates |-> Len(general) > 0,
                                             alerted |-> HasGeneral(res.alerts)])
                       ELSE callLog

----------------------------------------------------------------------------
(* Initial states: the components as their constructors leave them         *)

InitTracker ==
    /\ tracks = <<>>
    /\ next_id = 0
    /\ out = <<>>
    /\ lastDets = <<>>
    /\ assigned = <<>>
    /\ tiedLow = <<>>
    /\ allocLog = <<>>
    /\ prevNextId = 0
    /\ prevTracks = <<>>
    /\ evicted = {}
    /\ persistRun = 0
    /\ emptyRun = 0
    /\ lastMatched = <<>>

InitLingerDetector ==
    /\ objects_in_roi = <<>>
    /\ events = <<>>
    /\ lastTracked = <<>>
    /\ lastNow = 0
    /\ lastEff = 0
    /\ preIds = {}
    /\ preRecs = <<>>
    /\ epEmits = <<>>
    /\ epQualified = <<>>
    /\ lastInside = <<>>

InitAlertManager ==
    /\ last_general = 0
    /\ alerts = <<>>
    /\ lastGeneralArg = <<>>
    /\ lastLingerArg = <<>>
    /\ lastTimestamp = 0
    /\ prevLastGeneral = 0
    /\ callLog = <<>>
    /\ lastEffTimestamp = 0
    /\ generalTimes = <<>>

\* no CameraThread has been created
InitCameras ==
    /\ heap = <<>>
    /\ threads = <<>>
    /\ lastCam = 0

\* run has not been entered, the stop event is clear
InitRun ==
    /\ pc = "loop"
    /\ stop_event = FALSE
    /\ runLocals = [now |-> 0, detections |-> <<>>, tracked |-> <<>>, linger_events |-> <<>>]
    /\ tickCalls = <<>>
    /\ stopAt = ""

\* main has not yet called CameraThread(...)
InitCtor ==
    /\ ctorState = "new"
    /\ raised = NoException

\* no CameraManager has been created: the fields as lines 20-21 set them
InitCameraManager ==
    /\ camera_built = FALSE
    /\ cap_open = FALSE
    /\ last_attempt = 0
    /\ reconnect_interval = 0
    /\ wall = 0
    /\ attempts = <<>>
    /\ failedAt = NoTime
    /\ lastRead = NoRead

InitObjects ==
    /\ InitCtor
    /\ InitCameraManager
    /\ InitTracker
    /\ InitLingerDetector
    /\ InitAlertManager
    /\ InitCameras
    /\ InitRun
    /\ last_detections = <<>>
    /\ scenario = 0
    /\ clockReads = {}
    /\ mono = 0

\* the program started without --display, for a camera with the ROI used here
InitComponents ==
    /\ InitObjects
    /\ display_flag = FALSE
    /\ cam_cfg = [roi |-> DefaultRoi, linger_time_seconds |-> linger_time,
                  alert_cooldown_seconds |-> general_cooldown, display |-> FALSE]

----------------------------------------------------------------------------
(* LingerDetector.update(tracked, now) called directly, by a caller that   *)
(* passes non-decreasing timestamps                                        *)

LingerUpdateCall ==
    \E tracked \in TrackedLists, now \in lastNow..MaxTime :
      \E clk \in (IF ReadsClock(now) THEN mono..MaxTime ELSE {mono}) :
        /\ LingerEffect(tracked, now, clk)
        /\ clockReads' = IF ReadsClock(now) THEN {"LingerDetector"} ELSE {}
        /\ mono' = clk
        /\ UNCHANGED <<configVars, trackerVars, alertVars, threadVars, otherVars>>

InitLinger ==
    /\ roi = DefaultRoi
    /\ linger_time \in 0..MaxLinger
    /\ dist_threshold = DefaultDistThreshold
    /\ max_missing_frames = MaxMissing
    /\ general_cooldown = MaxCooldown
    /\ InitComponents

NextLinger == LingerUpdateCall

SpecLinger == InitLinger /\ [][NextLinger]_vars

----------------------------------------------------------------------------
(* LingerDetector.update called with one object whose centroid is on, just *)
(* inside or just outside the border of the ROI                            *)

\* a box whose sums x1+x2 and y1+y2 are odd, with integer centroid (cx, cy)
BoxAt(cx, cy) == <<cx - 10, cy - 10, cx + 11, cy + 11>>

\* coordinates at, next to and between the edges of DefaultRoi
ProbeCoords == {99, 100, 150, 200, 201}

ProbeLists ==
    {<<[id |-> 0, box |-> BoxAt(cx, cy), label |-> "person", confidence |-> 90,
        last_seen |-> 0]>> : cx \in ProbeCoords, cy \in ProbeCoords}

RoiProbeCall ==
    \E tracked \in ProbeLists, now \in lastNow..MaxTime :
      \E clk \in (IF ReadsClock(now) THEN mono..MaxTime ELSE {mono}) :
        /\ LingerEffect(tracked, now, clk)
        /\ clockReads' = IF ReadsClock(now) THEN {"LingerDetector"} ELSE {}
        /\ mono' = clk
        /\ UNCHANGED <<configVars, trackerVars, alertVars, threadVars, otherVars>>

NextRoi == RoiProbeCall

SpecRoi == InitLinger /\ [][NextRoi]_vars

----------------------------------------------------------------------------
(* Tracker.update(detections) called directly                              *)

TrackerUpdateCall ==
    \E dets \in DetLists :
      \E clk \in mono..MaxClock :
        /\ TrackerUpdate(tracks, next_id, dets, dist_threshold, max_missing_frames).next_id
               <= MaxAlloc
        /\ TrackerEffect(dets, clk)
        /\ clockReads' = {"Tracker"}
        /\ mono' = clk
        /\ UNCHANGED <<configVars, lingerVars, alertVars, threadVars, otherVars>>

InitTrackerSpec ==
    /\ roi = DefaultRoi
    /\ linger_time = MaxLinger
    /\ dist_threshold = DefaultDistThreshold
    /\ max_missing_frames \in 0..MaxMissing
    /\ general_cooldown = MaxCooldown
    /\ InitComponents

NextTracker == TrackerUpdateCall

SpecTracker == InitTrackerSpec /\ [][NextTracker]_vars

----------------------------------------------------------------------------
(* Tracker.update called directly on trackers with a longer tolerance, with *)
(* detections of three objects more than dist_threshold apart             *)

SparsePool ==
    {Detection(BoxMid, "person", 90), Detection(BoxEdge, "dog", 70),
     Detection(BoxFar, "dog", 60)}

SparseDetLists == UNION {[1..n -> SparsePool] : n \in 0..MaxDets}

TrackerSparseCall ==
    \E dets \in SparseDetLists :
      \E clk \in mono..MaxClock :
        /\ TrackerUpdate(tracks, next_id, dets, dist_threshold, max_missing_frames).next_id
               <= MaxAlloc
        /\ TrackerEffect(dets, clk)
        /\ clockReads' = {"Tracker"}
        /\ mono' = clk
        /\ UNCHANGED <<configVars, lingerVars, alertVars, threadVars, otherVars>>

InitMissingSpec ==
    /\ roi = DefaultRoi
    /\ linger_time = MaxLinger
    /\ dist_threshold = DefaultDistThreshold
    /\ max_missing_frames \in 0..MaxMissingLong
    /\ general_cooldown = MaxCooldown
    /\ InitComponents

NextMissing == TrackerSparseCall

SpecMissing == InitMissingSpec /\ [][NextMissing]_vars

----------------------------------------------------------------------------
(* AlertManager.evaluate(general, linger, timestamp) called directly, by a *)
(* caller that passes non-decreasing timestamps                            *)

GeneralLists ==
    {<<>>, <<Detection(BoxFar, "dog", 60)>>,
     <<Detection(BoxMid, "person", 90), Detection(BoxFar, "dog", 60)>>}

EventA == [id |-> 0, duration |-> 3, box |-> BoxMid, label |-> "person"]
EventB == [id |-> 1, duration |-> 4, box |-> BoxEdge, label |-> "dog"]

LingerLists == {<<>>, <<EventA>>, <<EventB, EventA>>}

EvaluateCall ==
    \E general \in GeneralLists, linger \in LingerLists, timestamp \in lastTimestamp..MaxTime :
      \E clk \in (IF ReadsClock(timestamp) THEN mono..MaxTime ELSE {mono}) :
        /\ AlertEffect(general, linger, timestamp, clk)
        /\ clockReads' = IF ReadsClock(timestamp) THEN {"AlertManager"} ELSE {}
        /\ mono' = clk
        /\ UNCHANGED <<configVars, trackerVars, lingerVars, threadVars, otherVars>>

InitAlertSpec ==
    /\ roi = DefaultRoi
    /\ linger_time = MaxLinger
    /\ dist_threshold = DefaultDistThreshold
    /\ max_missing_frames = MaxMissing
    /\ general_cooldown \in 0..MaxCooldown
    /\ InitComponents

NextAlert == EvaluateCall

SpecAlert == InitAlertSpec /\ [][NextAlert]_vars

----------------------------------------------------------------------------
(* CameraThread.run: one pass of the loop body that obtained a frame       *)

DefaultLingerTime == 5

\* what ObjectDetector.detect returns for a frame: nothing, the person, the dog, or both
RunDetLists ==
    {<<>>, <<Detection(BoxMid, "person", 90)>>, <<Detection(BoxFar, "dog", 60)>>,
     <<Detection(BoxMid, "person", 90), Detection(BoxFar, "dog", 60)>>}

\* the detections of the end-to-end scenario: one person centred at (150,150)
ScenarioDets == <<Detection(BoxMid, "person", 90)>>

\* the timestamps of its ticks
ScenarioTimes == <<0, 1, 2, 3, 4, 5>>

ScenarioLength == Len(ScenarioTimes)

\* main.py lines 106-109 without the filter: every detection is a candidate
GeneralCandidatesAll(detections, linger_events) == detections

\* main.py lines 106-109: person detections are left out when a linger event fired
GeneralCandidates(detections, linger_events) ==
    SelectSeq(detections, LAMBDA d : ~(d.label = "person" /\ Len(linger_events) > 0))

\* a later reading of the clock within the same tick
LaterReading(c) == {x \in c..(c + MaxSkew) : x <= MaxRunTime}

\* the readings line 85 can return: the clock does not go back, and two
\* ticks are at least one time unit apart
TickReadings ==
    {x \in mono..MaxRunTime : Len(callLog) = 0 \/ x > lastTimestamp}

RunTick ==
    \E moved \in BOOLEAN, detected \in RunDetLists, now \in TickReadings :
      \E c1 \in LaterReading(now) :
        \E c2 \in (IF ReadsClock(now) THEN LaterReading(c1) ELSE {c1}) :
          \E c3 \in (IF ReadsClock(now) THEN LaterReading(c2) ELSE {c2}) :
            \E detections \in {IF moved THEN detected ELSE last_detections} :
              \E tres \in {TrackerUpdate(tracks, next_id, detections, dist_threshold,
                                         max_missing_frames)} :
                \E tracked \in {TrackerOutput(tres.tracks, c1)} :
                  \E linger_events \in {LingerUpdate(objects_in_roi, tracked,
                                            EffectiveNow(now, c2), roi, linger_time).evs} :
                    /\ moved \/ detected = <<>>
                    /\ tres.next_id <= MaxAlloc
                    /\ last_detections' = detections
                    /\ TrackerEffect(detections, c1)
                    /\ LingerEffect(tracked, now, c2)
                    /\ AlertEffect(GeneralCandidates(detections, linger_events),
                                   linger_events, now, c3)
                    /\ clockReads' = IF ReadsClock(now)
                                     THEN {"Tracker", "LingerDetector", "AlertManager"}
                                     ELSE {"Tracker"}
                    /\ mono' = c3
                    /\ scenario' = IF /\ scenario >= 0 /\ scenario < ScenarioLength
                                      /\ now = ScenarioTimes[scenario + 1]
                                      /\ detections = ScenarioDets
                                      /\ roi = DefaultRoi
                                      /\ linger_time = DefaultLingerTime
                                      /\ dist_threshold = DefaultDistThreshold
                                   THEN scenario + 1
                                   ELSE NoId
                    /\ UNCHANGED <<configVars, otherVars>>

Init ==
    /\ roi = DefaultRoi
    /\ linger_time \in {MaxLinger, DefaultLingerTime}
    /\ dist_threshold = DefaultDistThreshold
    /\ max_missing_frames = MaxMissing
    /\ general_cooldown = MaxCooldown
    /\ InitComponents

Next == RunTick

Spec == Init /\ [][Next]_vars

----------------------------------------------------------------------------
(* Two CameraThreads, each running the loop body of run on the components  *)
(* its constructor created for it                                          *)

Cams == {1, 2}

\* what ObjectDetector.detect returns for a frame of these cameras
CamDetLists == {<<>>, <<Detection(BoxMid, "person", 90)>>}

\* the objects the component constructors build
NewTracker == [kind |-> "Tracker", tracks |-> <<>>, next_id |-> 0]

NewLingerDetector == [kind |-> "LingerDetector", objects_in_roi |-> <<>>]

NewAlertManager == [kind |-> "AlertManager", last_general |-> 0]

\* a constructor call that hands back the object an earlier call of the class
\* built (one object per class, shared by the threads)
AllocateShared(h, obj) ==
    IF \E i \in 1..Len(h) : h[i].kind = obj.kind THEN h ELSE Append(h, obj)

\* a constructor call builds a new object
Allocate(h, obj) == Append(h, obj)

\* the object of the given class that the latest constructor call returned
RefOf(h, kind) == SetMax({i \in 1..Len(h) : h[i].kind = kind})

\* main.py lines 64-75: self.tracker, self.linger, self.alert_mgr and
\* self.last_detections of the thread of camera c
CreateComponents(c) ==
    /\ c \notin DOMAIN threads
    /\ \E h1 \in {Allocate(heap, NewTracker)} :
         \E h2 \in {Allocate(h1, NewLingerDetector)} :
           \E h3 \in {Allocate(h2, NewAlertManager)} :
             /\ heap' = h3
             /\ threads' = [d \in DOMAIN threads \cup {c} |->
                    IF d = c
                    THEN [tracker |-> RefOf(h1, "Tracker"),
                          linger |-> RefOf(h2, "LingerDetector"),
                          alert_mgr |-> RefOf(h3, "AlertManager"),
                          last_detections |-> <<>>]
                    ELSE threads[d]]
    /\ UNCHANGED <<lastCam, mono, clockReads, configVars, trackerVars, lingerVars,
                   alertVars, threadVars, runVars, ctorVars, camVars>>

\* a reading of the clock at or after c
LaterReadingCam(c) == {x \in c..(c + MaxSkew) : x <= MaxCamTime}

\* main.py lines 85-114 run by the thread of camera c on its own components
CameraTick(c) ==
    /\ c \in DOMAIN threads
    /\ \E moved \in BOOLEAN, detected \in CamDetLists, now \in mono..MaxCamTime :
        \E c1 \in LaterReadingCam(now) :
         \E c2 \in (IF ReadsClock(now) THEN LaterReadingCam(c1) ELSE {c1}) :
          \E c3 \in (IF ReadsClock(now) THEN LaterReadingCam(c2) ELSE {c2}) :
           \E detections \in {IF moved THEN detected ELSE threads[c].last_detections} :
            \E tres \in {TrackerUpdate(heap[threads[c].tracker].tracks,
                                       heap[threads[c].tracker].next_id, detections,
                                       dist_threshold, max_missing_frames)} :
             \E lres \in {LingerUpdate(heap[threads[c].linger].objects_in_roi,
                                       TrackerOutput(tres.tracks, c1),
                                       EffectiveNow(now, c2), roi, linger_time)} :
              \E ares \in {Evaluate(heap[threads[c].alert_mgr].last_general,
                                    GeneralCandidates(detections, lres.evs), lres.evs,
                                    EffectiveNow(now, c3), general_cooldown)} :
                /\ moved \/ detected = <<>>
                /\ tres.next_id <= MaxCamAlloc
                /\ heap' = [i \in 1..Len(heap) |->
                      IF i = threads[c].tracker
                      THEN [heap[i] EXCEPT !.tracks = tres.tracks, !.next_id = tres.next_id]
                      ELSE IF i = threads[c].linger
                      THEN [heap[i] EXCEPT !.objects_in_roi = lres.recs]
                      ELSE IF i = threads[c].alert_mgr
                      THEN [heap[i] EXCEPT !.last_general = ares.last_general]
                      ELSE heap[i]]
                /\ threads' = [threads EXCEPT ![c].last_detections = detections]
                /\ lastCam' = c
                /\ mono' = c3
    /\ UNCHANGED <<clockReads, configVars, trackerVars, lingerVars, alertVars, threadVars,
                   runVars, ctorVars, camVars>>

InitCamerasSpec ==
    /\ roi = DefaultRoi
    /\ linger_time = MaxLinger
    /\ dist_threshold = DefaultDistThreshold
    /\ max_missing_frames = MaxMissing
    /\ general_cooldown = MaxCooldown
    /\ InitComponents

NextCameras == \E c \in Cams : CreateComponents(c) \/ CameraTick(c)

SpecCameras == InitCamerasSpec /\ [][NextCameras]_vars

----------------------------------------------------------------------------
(* CameraThread.run statement by statement, with the shutdown handler of   *)
(* main setting the stop event at any moment                               *)

\* the statements of run at which the thread can be: the while test (line 78),
\* read_frame (79-83), the reading of now and the detections (85-96),
\* tracker.update (99), linger.update (102), alert_mgr.evaluate (106-114),
\* render, notify and display (117-138), cleanup (141), and past the end
RunPoints == {"loop", "read", "detect", "tracker", "linger", "alert", "display",
              "cleanup", "done"}

\* the calls of a pass of the loop body that obtained a frame, in program order
FullTick == <<"monotonic", "Tracker", "LingerDetector", "AlertManager">>

\* a loop that tests the stop event before every statement
StopExaminedEverywhere(p) == p \in RunPoints \ {"cleanup", "done"}

\* main.py line 78: stop_event.is_set() is evaluated by the while test only
StopExamined(p) == p = "loop"

\* evaluate is handed a fresh reading of the clock
TimestampArgFresh(now, clk) == clk

\* main.py line 113: timestamp=now, the local read at line 85
TimestampArg(now, clk) == now

\* a reading of the clock at or after c
LaterReadingRun(c) == {x \in c..(c + MaxSkew) : x <= MaxLoopTime}

\* main.py lines 212-214: the signal handler sets the stop event
SetStop ==
    /\ ~stop_event
    /\ pc # "done"
    /\ stop_event' = TRUE
    /\ stopAt' = pc
    /\ UNCHANGED <<pc, display_flag, runLocals, tickCalls>>
    /\ UNCHANGED <<configVars, trackerVars, lingerVars, alertVars, threadVars, clockReads,
                   mono, camerasVars, ctorVars, camVars>>

\* the statement at p finds the stop event set where it is examined: leave the loop
ExitLoop ==
    /\ StopExamined(pc)
    /\ stop_event
    /\ pc' = "cleanup"
    /\ UNCHANGED <<stop_event, display_flag, runLocals, tickCalls, stopAt>>
    /\ UNCHANGED <<configVars, trackerVars, lingerVars, alertVars, threadVars, clockReads,
                   mono, camerasVars, ctorVars, camVars>>

\* the thread is at p and goes on with the statement there
Proceed(p) == pc = p /\ ~(StopExamined(p) /\ stop_event)

\* main.py line 78: the while test finds the event clear
LoopHead ==
    /\ Proceed("loop")
    /\ pc' = "read"
    /\ UNCHANGED <<stop_event, display_flag, runLocals, tickCalls, stopAt>>
    /\ UNCHANGED <<configVars, trackerVars, lingerVars, alertVars, threadVars, clockReads,
                   mono, camerasVars, ctorVars, camVars>>

\* main.py lines 79-83: read_frame returns a frame, or None and the loop continues
ReadFrame ==
    /\ Proceed("read")
    /\ \E got \in BOOLEAN : pc' = IF got THEN "detect" ELSE "loop"
    /\ UNCHANGED <<stop_event, display_flag, runLocals, tickCalls, stopAt>>
    /\ UNCHANGED <<configVars, trackerVars, lingerVars, alertVars, threadVars, clockReads,
                   mono, camerasVars, ctorVars, camVars>>

\* main.py lines 85-96: now, moved and detections
DetectStep ==
    /\ Proceed("detect")
    /\ \E moved \in BOOLEAN, detected \in CamDetLists, now \in LaterReadingRun(mono) :
         /\ moved \/ detected = <<>>
         /\ runLocals' = [runLocals EXCEPT
                              !.now = now,
                              !.detections = IF moved THEN detected ELSE last_detections]
         /\ last_detections' = IF moved THEN detected ELSE last_detections
         /\ mono' = now
    /\ tickCalls' = <<"monotonic">>
    /\ pc' = "tracker"
    /\ UNCHANGED <<stop_event, display_flag, stopAt, scenario, clockReads>>
    /\ UNCHANGED <<configVars, trackerVars, lingerVars, alertVars, camerasVars, ctorVars, camVars>>

\* main.py line 99: tracked = self.tracker.update(detections)
TrackerStep ==
    /\ Proceed("tracker")
    /\ TrackerUpdate(tracks, next_id, runLocals.detections, dist_threshold,
                     max_missing_frames).next_id <= MaxLoopAlloc
    /\ \E clk \in LaterReadingRun(mono) :
         /\ TrackerEffect(runLocals.detections, clk)
         /\ runLocals' = [runLocals EXCEPT !.tracked = out']
         /\ mono' = clk
    /\ tickCalls' = Append(tickCalls, "Tracker")
    /\ pc' = "linger"
    /\ UNCHANGED <<stop_event, display_flag, stopAt, clockReads>>
    /\ UNCHANGED <<configVars, lingerVars, alertVars, threadVars, camerasVars, ctorVars, camVars>>

\* main.py line 102: linger_events = self.linger.update(tracked, now)
LingerStep ==
    /\ Proceed("linger")
    /\ \E clk \in (IF ReadsClock(runLocals.now) THEN LaterReadingRun(mono) ELSE {mono}) :
         /\ LingerEffect(runLocals.tracked, runLocals.now, clk)
         /\ runLocals' = [runLocals EXCEPT !.linger_events = events']
         /\ mono' = clk
    /\ tickCalls' = Append(tickCalls, "LingerDetector")
    /\ pc' = "alert"
    /\ UNCHANGED <<stop_event, display_flag, stopAt, clockReads>>
    /\ UNCHANGED <<configVars, trackerVars, alertVars, threadVars, camerasVars, ctorVars, camVars>>

\* main.py lines 106-114: the general candidates and self.alert_mgr.evaluate
AlertStep ==
    /\ Proceed("alert")
    /\ \E clk \in LaterReadingRun(mono) :
        \E timestamp \in {TimestampArg(runLocals.now, clk)} :
            /\ AlertEffect(GeneralCandidates(runLocals.detections, runLocals.linger_events),
                           runLocals.linger_events, timestamp, clk)
            /\ mono' = IF ReadsClock(timestamp) THEN clk ELSE mono
    /\ tickCalls' = Append(tickCalls, "AlertManager")
    /\ pc' = "display"
    /\ UNCHANGED <<stop_event, display_flag, runLocals, stopAt, clockReads>>
    /\ UNCHANGED <<configVars, trackerVars, lingerVars, threadVars, camerasVars, ctorVars, camVars>>

\* main.py lines 117-138: render, save and notify, then show the frame; display
\* returning False sets the stop event and breaks out of the loop
DisplayStep ==
    /\ Proceed("display")
    /\ \E shown \in (IF display_flag THEN BOOLEAN ELSE {TRUE}) :
         IF shown
         THEN pc' = "loop" /\ UNCHANGED <<stop_event, stopAt>>
         ELSE /\ pc' = "cleanup"
              /\ stop_event' = TRUE
              /\ stopAt' = IF stop_event THEN stopAt ELSE "display"
    /\ UNCHANGED <<display_flag, runLocals, tickCalls>>
    /\ UNCHANGED <<configVars, trackerVars, lingerVars, alertVars, threadVars, clockReads,
                   mono, camerasVars, ctorVars, camVars>>

\* main.py line 141: self.camera.cleanup(), and run returns
Cleanup ==
    /\ Proceed("cleanup")
    /\ pc' = "done"
    /\ UNCHANGED <<stop_event, display_flag, runLocals, tickCalls, stopAt>>
    /\ UNCHANGED <<configVars, trackerVars, lingerVars, alertVars, threadVars, clockReads,
                   mono, camerasVars, ctorVars, camVars>>

InitRunSpec ==
    /\ roi = DefaultRoi
    /\ linger_time \in {0, MaxLinger}
    /\ dist_threshold = DefaultDistThreshold
    /\ max_missing_frames = MaxMissing
    /\ general_cooldown = MaxCooldown
    /\ InitObjects
    /\ display_flag \in BOOLEAN
    /\ cam_cfg = [roi |-> DefaultRoi, linger_time_seconds |-> linger_time,
                  alert_cooldown_seconds |-> general_cooldown, display |-> display_flag]

NextRun ==
    \/ SetStop
    \/ ExitLoop
    \/ LoopHead
    \/ ReadFrame
    \/ DetectStep
    \/ TrackerStep
    \/ LingerStep
    \/ AlertStep
    \/ DisplayStep
    \/ Cleanup

SpecRun == InitRunSpec /\ [][NextRun]_vars

----------------------------------------------------------------------------
(* CameraManager: the constructor and read_frame, on the clock time.time() *)

\* main.py line 50: reconnect_interval=5.0
CameraReconnectInterval == 5

\* line 44: time.time() - self.last_attempt >= self.reconnect_interval
IntervalElapsed(t, last, interval) == t - last >= interval

\* a reading of time.time() at or after c
LaterWall(c) == {x \in c..(c + MaxSkew) : x <= MaxWall}

\* lines 25-34: _connect, whose line 27 reads t from the clock and whose
\* VideoCapture is opened or not
Connect(t, opened) ==
    /\ last_attempt' = t
    /\ cap_open' = opened
    /\ attempts' = IF Len(attempts) = 0 THEN <<t>> ELSE <<attempts[Len(attempts)], t>>
    /\ failedAt' = IF opened THEN NoTime ELSE failedAt
    /\ wall' = t

\* lines 11-23: CameraManager(url, reconnect_interval=ri, ...), which ends with _connect()
CameraManagerNew(ri) ==
    /\ ~camera_built
    /\ camera_built' = TRUE
    /\ reconnect_interval' = ri
    /\ \E t \in wall..MaxWall, opened \in BOOLEAN : Connect(t, opened)
    /\ UNCHANGED lastRead

\* lines 36-55: read_frame, called when the clock shows t
ReadFrameCall ==
    /\ camera_built
    /\ \E t \in wall..MaxWall, ret \in BOOLEAN :
         IF ~cap_open
         THEN IF IntervalElapsed(t, last_attempt, reconnect_interval)
              THEN \E t2 \in LaterWall(t), opened \in BOOLEAN :
                     /\ Connect(t2, opened)
                     /\ lastRead' = [t |-> t, connected_before |-> FALSE, attempted |-> TRUE,
                                     failed |-> FALSE, result |-> "None",
                                     since_fail |-> failedAt]
              ELSE /\ lastRead' = [t |-> t, connected_before |-> FALSE, attempted |-> FALSE,
                                    failed |-> FALSE, result |-> "None",
                                    since_fail |-> failedAt]
                   /\ wall' = t
                   /\ UNCHANGED <<cap_open, last_attempt, attempts, failedAt>>
         ELSE IF ~ret
              THEN /\ cap_open' = FALSE
                   /\ failedAt' = t
                   /\ lastRead' = [t |-> t, connected_before |-> TRUE, attempted |-> FALSE,
                                    failed |-> TRUE, result |-> "None", since_fail |-> NoTime]
                   /\ wall' = t
                   /\ UNCHANGED <<last_attempt, attempts>>
              ELSE /\ lastRead' = [t |-> t, connected_before |-> TRUE, attempted |-> FALSE,
                                    failed |-> FALSE, result |-> "frame", since_fail |-> NoTime]
                   /\ wall' = t
                   /\ UNCHANGED <<cap_open, last_attempt, attempts, failedAt>>
    /\ UNCHANGED <<camera_built, reconnect_interval>>

\* a CameraManager is built with some reconnect interval, then read_frame is called
CameraManagerCall ==
    /\ \E ri \in 1..MaxInterval : CameraManagerNew(ri)
    /\ UNCHANGED <<configVars, trackerVars, lingerVars, alertVars, threadVars, clockReads,
                   mono, camerasVars, runVars, ctorVars>>

ReadFrameStep ==
    /\ ReadFrameCall
    /\ UNCHANGED <<configVars, trackerVars, lingerVars, alertVars, threadVars, clockReads,
                   mono, camerasVars, runVars, ctorVars>>

NextCamera == CameraManagerCall \/ ReadFrameStep

SpecCamera == InitCamerasSpec /\ [][NextCamera]_vars

----------------------------------------------------------------------------
(* main creating the CameraThread of the first configured camera           *)

\* the fields of the dataclass MotionConfig
MotionConfigFields == {"enabled", "min_area", "threshold", "blur_kernel"}

\* the parameters of MotionDetector.__init__
MotionDetectorParams == {"threshold", "blur_kernel", "min_area"}

\* the keywords of the call MotionDetector(...), each read from the attribute of
\* cam_cfg.motion_detection of the same name
MotionDetectorKeywords == {"skip_frames", "threshold", "blur_kernel", "min_area"}

\* the parameters of Tracker.__init__
TrackerParams == {"max_missing_frames", "dist_threshold"}

\* the keywords of the call Tracker(...)
TrackerKeywords == {"max_missing", "dist_threshold"}

\* the first exception the statements of CameraThread.__init__ raise for cfg, in
\* program order: reading an attribute the dataclass does not have, passing a
\* keyword the callee does not take, tuple(None)
InitOutcome(cfg) ==
    IF ~(MotionDetectorKeywords \subseteq MotionConfigFields)
    THEN [type |-> "AttributeError", line |-> 54]
    ELSE IF ~(MotionDetectorKeywords \subseteq MotionDetectorParams)
    THEN [type |-> "TypeError", line |-> 53]
    ELSE IF ~(TrackerKeywords \subseteq TrackerParams)
    THEN [type |-> "TypeError", line |-> 64]
    ELSE IF cfg.roi = NoRoi
    THEN [type |-> "TypeError", line |-> 69]
    ELSE NoException

\* main.py lines 199-206 and 30-75: CameraThread(...).  The CameraManager is
\* built first and tries to open the capture; the statements after it run
\* up to the first that raises
CameraThreadInit ==
    /\ ctorState = "new"
    /\ CameraManagerNew(CameraReconnectInterval)
    /\ raised' = InitOutcome(cam_cfg)
    /\ ctorState' = IF InitOutcome(cam_cfg) = NoException THEN "built" ELSE "raised"
    /\ UNCHANGED <<cam_cfg, configVars, trackerVars, lingerVars, alertVars, threadVars,
                   clockReads, mono, camerasVars, runVars>>

\* main.py lines 198-209: nothing catches the exception, so main ends with it
\* before any thread was started; the capture is not released
MainExits ==
    /\ ctorState = "raised"
    /\ ctorState' = "exited"
    /\ UNCHANGED <<cam_cfg, raised, camVars, configVars, trackerVars, lingerVars, alertVars,
                   threadVars, clockReads, mono, camerasVars, runVars>>

\* the configurations of a camera: with or without linger_detection.roi
InitCtorSpec ==
    /\ cam_cfg \in [roi : {NoRoi, DefaultRoi}, linger_time_seconds : 0..MaxLinger,
                     alert_cooldown_seconds : 0..MaxCooldown, display : BOOLEAN]
    /\ roi = cam_cfg.roi
    /\ linger_time = cam_cfg.linger_time_seconds
    /\ dist_threshold = DefaultDistThreshold
    /\ max_missing_frames = MaxMissing
    /\ general_cooldown = cam_cfg.alert_cooldown_seconds
    /\ display_flag = cam_cfg.display
    /\ InitObjects

NextCtor == CameraThreadInit \/ MainExits

SpecCtor == InitCtorSpec /\ [][NextCtor]_vars

----------------------------------------------------------------------------
(* Properties of LingerDetector.update, stated on the state after a call   *)

\* the dwell the last call computed for a record it found inside the ROI
Dwell(i) == lastEff - preRecs[i].enter_time

C2_ExactlyOncePerEpisode ==
    /\ \A i \in DOMAIN objects_in_roi :
           /\ epEmits[i] <= 1
           /\ epQualified[i] <=> (epEmits[i] = 1)
    /\ \A i \in Ids : CountEvents(events, i) <= 1

C2_Witness ==
    \E i \in DOMAIN preRecs :
        /\ i \in DOMAIN objects_in_roi
        /\ epEmits[i] = 1
        /\ Qualifies(Dwell(i), linger_time)
        /\ ~HasEvent(events, i)

\* C4 as stated: after every update each key of objects_in_roi is an id that
\* was present in that call's tracked list (absent ids have been cleaned up).
C4_AbsentIdsCleaned == DOMAIN objects_in_roi \subseteq IdsOf(lastTracked)

\* C8 as stated: every call that finds a track inside the ROI with a dwell
\* over the threshold emits a LingerEvent for it, not only the first such call.
C8_ContinuousEmission ==
    \A i \in DOMAIN preRecs :
        Qualifies(Dwell(i), linger_time) => HasEvent(events, i)

\* C8 amended: emission is gated by the record's alert_emitted flag. A call
\* emits an event for a track exactly when it finds it inside the ROI with a
\* record, a qualifying dwell and the flag unset, and it sets the flag; once
\* the flag is set, later qualifying calls of the episode emit nothing.
C8_EmissionGatedByFlag ==
    \A i \in IdsOf(lastTracked) :
        /\ HasEvent(events, i) <=>
              /\ i \in DOMAIN preRecs
              /\ Qualifies(Dwell(i), linger_time)
              /\ ~preRecs[i].alert_emitted
        /\ HasEvent(events, i) => objects_in_roi[i].alert_emitted

C8_Witness ==
    \E i \in DOMAIN preRecs :
        /\ preRecs[i].alert_emitted
        /\ Qualifies(Dwell(i), linger_time)
        /\ ~HasEvent(events, i)

\* C9: after every update, for every id that has ever appeared in a tracked
\* list, a residency record exists iff the id's centroid was inside the ROI in
\* the most recent call in which it appeared; no other id has a record.
C9_RecordIffInsideWhenLastSeen ==
    /\ DOMAIN objects_in_roi \subseteq DOMAIN lastInside
    /\ \A i \in DOMAIN lastInside : (i \in DOMAIN objects_in_roi) <=> lastInside[i]

C9_Witness ==
    \E i, j \in DOMAIN lastInside :
        /\ i \in IdsOf(lastTracked) /\ i \in preIds /\ i \notin DOMAIN objects_in_roi
        /\ j \notin IdsOf(lastTracked) /\ j \in DOMAIN objects_in_roi

\* C20 as stated: a call that sees a track outside the ROI removes its record
\* and emits nothing for it, so an episode left before the duration passes
\* linger_time has no event; a call that sees a track inside with no record
\* (entry or re-entry) creates one with enter_time equal to the call's now and
\* the alert flag unset, and emits nothing for it; every event carries the
\* duration from the current record's enter_time to the call's now, above
\* linger_time, never time from an earlier residency.
C20_EntryExitResetsTimer ==
    /\ \A i \in IdsOf(lastTracked) :
           ~InRoi(roi, ObjOf(lastTracked, i).box)
           => (i \notin DOMAIN objects_in_roi /\ ~HasEvent(events, i))
    /\ \A i \in DOMAIN objects_in_roi \ preIds :
           /\ objects_in_roi[i] = [enter_time |-> lastNow, alert_emitted |-> FALSE]
           /\ ~HasEvent(events, i)
    /\ \A k \in 1..Len(events) :
           /\ events[k].id \in DOMAIN preRecs
           /\ events[k].duration = lastNow - preRecs[events[k].id].enter_time
           /\ events[k].duration > linger_time

\* C27 as stated: a call that finds a track inside the ROI for which no record
\* existed leaves a record for it with enter_time equal to the call's now and
\* the alert flag unset, and returns no event for it, whatever linger_time is.
C27_NoEventOnEntry ==
    \A i \in IdsOf(lastTracked) :
        (InRoi(roi, ObjOf(lastTracked, i).box) /\ i \notin preIds) =>
            /\ i \in DOMAIN objects_in_roi
            /\ objects_in_roi[i].enter_time = lastNow
            /\ ~objects_in_roi[i].alert_emitted
            /\ ~HasEvent(events, i)

\* C28: the centroid-in-ROI test.  After a call, an object of the list has a
\* record exactly when the floors of (x1+x2)/2 and (y1+y2)/2 of its box lie
\* between the ROI's bounds, the bounds included: a centroid on an edge or a
\* corner is inside, one a unit beyond is outside.
C28_CentroidInRoiInclusive ==
    \A k \in 1..Len(lastTracked) :
        LET b  == lastTracked[k].box
            cx == (b[1] + b[3]) \div 2
            cy == (b[2] + b[4]) \div 2
        IN  (lastTracked[k].id \in DOMAIN objects_in_roi) <=>
                (roi[1] <= cx /\ cx <= roi[3] /\ roi[2] <= cy /\ cy <= roi[4])

\* a call with a non-zero now found the object on the corner (x2, y1) of the ROI,
\* its box having odd coordinate sums, and created the record for it
C28_Witness ==
    /\ Len(lastTracked) = 1
    /\ lastTracked[1].box = BoxAt(200, 100)
    /\ (lastTracked[1].box[1] + lastTracked[1].box[3]) % 2 = 1
    /\ 0 \in DOMAIN objects_in_roi
    /\ 0 \notin preIds
    /\ lastNow > 0

\* C30 as stated: every event returned by a call is for an object of the list
\* that is inside the ROI and had a record before the call; its duration is the
\* call's now minus that record's enter_time and is above linger_time, and its
\* box and label are the object's.
C30_EventsReferToResidents ==
    \A k \in 1..Len(events) :
        /\ events[k].id \in IdsOf(lastTracked)
        /\ events[k].id \in preIds
        /\ events[k].id \in DOMAIN preRecs
        /\ InRoi(roi, ObjOf(lastTracked, events[k].id).box)
        /\ events[k].box = ObjOf(lastTracked, events[k].id).box
        /\ events[k].label = ObjOf(lastTracked, events[k].id).label
        /\ events[k].duration > linger_time
        /\ events[k].duration = lastNow - preRecs[events[k].id].enter_time

----------------------------------------------------------------------------
(* Properties of Tracker.update, stated on the state after a call          *)

TrackIds == {tracks[k].id : k \in 1..Len(tracks)}

AllocatedIds == {allocLog[k] : k \in 1..Len(allocLog)}

\* C5 as stated: a detection that has two or more existing tracks at the same
\* nearest distance within dist_threshold is matched to the one with the
\* lowest id, whatever the earlier updates were.
C5_TieBreakLowestId ==
    \A k \in 1..Len(lastDets) : tiedLow[k] # NoId => assigned[k] = tiedLow[k]

\* C10: next_id never decreases, every id held in tracks is below next_id, no
\* two tracks and no two returned objects share an id, and no id value is ever
\* handed out twice, so an evicted track's id is not given to a later track.
C10_IdsUniqueNeverReused ==
    /\ next_id >= prevNextId
    /\ \A k \in 1..Len(tracks) : tracks[k].id >= 0 /\ tracks[k].id < next_id
    /\ \A i, j \in 1..Len(tracks) : i # j => tracks[i].id # tracks[j].id
    /\ \A i, j \in 1..Len(out) : i # j => out[i].id # out[j].id
    /\ \A i, j \in 1..Len(allocLog) : i # j => allocLog[i] # allocLog[j]
    /\ \A k \in 1..Len(allocLog) : allocLog[k] < next_id

C10_Witness ==
    /\ next_id > prevNextId
    /\ \E gone \in AllocatedIds : gone < prevNextId /\ gone \notin TrackIds
    /\ Len(out) >= 2

\* the track at index t of trks is the single nearest track to centroid c, at a
\* distance below the threshold
StrictlyNearest(trks, c, thr, t) ==
    /\ Dist2(c, trks[t].centroid) < thr * thr
    /\ \A u \in 1..Len(trks) :
           u # t => Dist2(c, trks[t].centroid) < Dist2(c, trks[u].centroid)

\* the indexes of the detections of the last call that were given id
ClaimedBy(id) == {k \in 1..Len(lastDets) : assigned[k] = id}

\* C11: a track that entered the call with a missing counter k, 1 <= k <=
\* max_missing_frames, and is the single nearest track, below dist_threshold, of
\* a detection of the call: the detection is given the track's id, which is not
\* an id allocated by the call, the track is kept with missing = 0, and the
\* call returns one object under that id, carrying the box of the last
\* detection that claimed it.
C11_TrackTolerance ==
    \A t \in 1..Len(prevTracks), k \in 1..Len(lastDets) :
        (/\ prevTracks[t].missing >= 1
         /\ prevTracks[t].missing <= max_missing_frames
         /\ StrictlyNearest(prevTracks, Centroid(lastDets[k].box), dist_threshold, t))
        => LET id == prevTracks[t].id
           IN  /\ assigned[k] = id
               /\ id < prevNextId
               /\ \E j \in 1..Len(tracks) : tracks[j].id = id /\ tracks[j].missing = 0
               /\ Cardinality({j \in 1..Len(out) : out[j].id = id}) = 1
               /\ \A j \in 1..Len(out) :
                      out[j].id = id => out[j].box = lastDets[SetMax(ClaimedBy(id))].box

C11_Witness ==
    \E t \in 1..Len(prevTracks), k \in 1..Len(lastDets) :
        /\ max_missing_frames >= 1
        /\ prevTracks[t].missing = max_missing_frames
        /\ StrictlyNearest(prevTracks, Centroid(lastDets[k].box), dist_threshold, t)
        /\ lastDets[k].box # prevTracks[t].box
        /\ assigned[k] = prevTracks[t].id
        /\ Len(prevTracks) >= 2

OutIds == {out[k].id : k \in 1..Len(out)}

\* no track that entered the last call is within the threshold of centroid c
NoTrackNear(c) ==
    \A t \in 1..Len(prevTracks) :
        Dist2(c, prevTracks[t].centroid) >= dist_threshold * dist_threshold

\* C12: a track that entered a call with missing = max_missing_frames (unmatched
\* in max_missing_frames consecutive calls) and is given no detection by it (the
\* max_missing_frames + 1st) is absent from the tracks and the output of that
\* call and of every later call; no later detection is ever given its id, and
\* one at its last centroid with no retained track within the threshold is
\* given an id allocated by its call.
C12_TrackEviction ==
    /\ \A t \in 1..Len(prevTracks) :
           (prevTracks[t].missing = max_missing_frames /\ ClaimedBy(prevTracks[t].id) = {})
           => [id |-> prevTracks[t].id, centroid |-> prevTracks[t].centroid] \in evicted
    /\ \A e \in evicted :
           /\ e.id \notin TrackIds
           /\ e.id \notin OutIds
           /\ ClaimedBy(e.id) = {}
           /\ \A k \in 1..Len(lastDets) :
                  (Centroid(lastDets[k].box) = e.centroid /\ NoTrackNear(e.centroid))
                  => (assigned[k] >= prevNextId /\ assigned[k] < next_id)

C12_Witness ==
    \E e \in evicted, k \in 1..Len(lastDets) :
        /\ \A t \in 1..Len(prevTracks) : prevTracks[t].id # e.id
        /\ Centroid(lastDets[k].box) = e.centroid
        /\ assigned[k] >= prevNextId
        /\ assigned[k] > e.id
        /\ max_missing_frames >= 1

\* C13: while every call since construction passed the same single detection
\* (dist_threshold > 0), each call returns exactly one object, under the id 0
\* the first call allocated, with the detection's box, and next_id stays at 1:
\* it was incremented by the first call only.
C13_TrackPersistence ==
    persistRun >= 1 =>
        /\ assigned = <<0>>
        /\ Len(out) = 1
        /\ out[1].id = 0
        /\ out[1].box = lastDets[1].box
        /\ next_id = 1
        /\ allocLog = <<0>>
        /\ (persistRun >= 2 => prevNextId = 1)

C13_Witness ==
    /\ persistRun = MaxPersist
    /\ prevTracks = tracks
    /\ Len(out) = 1 /\ out[1].id = 0

\* C14: when two detections of one call both have the same track, among those
\* that entered the call, as their single nearest track below dist_threshold,
\* both are given that track's id and neither an id allocated by the call, and
\* the record stored under the id after the call is that of the last detection
\* that claimed it: its centroid, box, label and confidence, with missing 0.
C14_GreedyLastWins ==
    \A t \in 1..Len(prevTracks), k1, k2 \in 1..Len(lastDets) :
        (/\ k1 < k2
         /\ StrictlyNearest(prevTracks, Centroid(lastDets[k1].box), dist_threshold, t)
         /\ StrictlyNearest(prevTracks, Centroid(lastDets[k2].box), dist_threshold, t))
        => LET id   == prevTracks[t].id
               last == lastDets[SetMax(ClaimedBy(id))]
           IN  /\ assigned[k1] = id /\ assigned[k2] = id
               /\ id < prevNextId
               /\ SetMax(ClaimedBy(id)) >= k2
               /\ \E j \in 1..Len(tracks) :
                      tracks[j] = [id |-> id, centroid |-> Centroid(last.box),
                                   box |-> last.box, label |-> last.label,
                                   confidence |-> last.confidence, missing |-> 0]
               /\ Cardinality({j \in 1..Len(tracks) : tracks[j].id = id}) = 1

C14_Witness ==
    \E t \in 1..Len(prevTracks) :
        /\ Len(lastDets) = 2
        /\ StrictlyNearest(prevTracks, Centroid(lastDets[1].box), dist_threshold, t)
        /\ StrictlyNearest(prevTracks, Centroid(lastDets[2].box), dist_threshold, t)
        /\ lastDets[1].label # lastDets[2].label
        /\ lastDets[1].box = prevTracks[t].box
        /\ assigned = <<prevTracks[t].id, prevTracks[t].id>>
        /\ next_id = prevNextId
        /\ \E j \in 1..Len(tracks) :
               tracks[j].id = prevTracks[t].id /\ tracks[j].label = lastDets[2].label

PrevIds == {prevTracks[k].id : k \in 1..Len(prevTracks)}

\* C23: empty-input degradation.  A call of Tracker.update with an empty list
\* creates no track and hands out no id: next_id is as before the call and
\* every track left was a track before, with its missing counter one higher.
\* Once max_missing_frames + 1 calls in a row have passed an empty list, no
\* track is left, and none is as long as the calls keep passing empty lists.
C23_EmptyInputDegradation ==
    /\ (persistRun # 0 /\ lastDets = <<>>) =>
          /\ next_id = prevNextId
          /\ out = TrackerOutput(tracks, mono)
          /\ \A k \in 1..Len(tracks) :
                \E j \in 1..Len(prevTracks) :
                    tracks[k] = [prevTracks[j] EXCEPT !.missing = @ + 1]
    /\ emptyRun >= max_missing_frames + 1 => (tracks = <<>> /\ out = <<>>)

\* the call that completes max_missing_frames + 1 empty calls in a row drops the
\* last tracks, which an earlier empty call had still kept
C23_Witness ==
    /\ max_missing_frames = MaxMissing
    /\ emptyRun = max_missing_frames + 1
    /\ Len(prevTracks) = 2
    /\ \A k \in 1..Len(prevTracks) : prevTracks[k].missing = max_missing_frames
    /\ tracks = <<>>
    /\ next_id = 2

\* the tracks of prevTracks that the last call gave no detection and that were
\* still within tolerance
KeptMissing ==
    {prevTracks[j].id : j \in {i \in 1..Len(prevTracks) :
        /\ \A k \in 1..Len(assigned) : assigned[k] # prevTracks[i].id
        /\ prevTracks[i].missing + 1 <= max_missing_frames}}

\* C24: retained tracks keep their last known data.  Every track kept by a call
\* holds the box, label, confidence and centroid of the detection that was last
\* stored for it, also when this call gave it no detection; the tracks kept are
\* the ones given a detection plus the unmatched ones within tolerance, and the
\* list returned has one entry per kept track, in order, with that data.
C24_RetainedKeepLastKnown ==
    /\ \A k \in 1..Len(tracks) :
          /\ tracks[k].id \in DOMAIN lastMatched
          /\ tracks[k].box = lastMatched[tracks[k].id].box
          /\ tracks[k].label = lastMatched[tracks[k].id].label
          /\ tracks[k].confidence = lastMatched[tracks[k].id].confidence
          /\ tracks[k].centroid = Centroid(lastMatched[tracks[k].id].box)
    /\ \A k \in 1..Len(tracks) :
          tracks[k].id \in KeptMissing =>
              \E j \in 1..Len(prevTracks) :
                  tracks[k] = [prevTracks[j] EXCEPT !.missing = @ + 1]
    /\ TrackIds = KeptMissing \cup {assigned[k] : k \in 1..Len(assigned)}
    /\ Len(out) = Len(tracks)
    /\ \A k \in 1..Len(out) :
          /\ out[k].id = tracks[k].id
          /\ out[k].box = tracks[k].box
          /\ out[k].label = tracks[k].label
          /\ out[k].confidence = tracks[k].confidence
    /\ \A i, j \in 1..Len(out) : i # j => out[i].id # out[j].id

\* a call matched one track, kept another that it gave no detection, and dropped
\* none: both are returned, the unmatched one with the data it had
C24_Witness ==
    /\ Len(tracks) = 2
    /\ Len(out) = 2
    /\ Len(lastDets) = 1
    /\ \E k \in 1..2 :
          /\ tracks[k].id \in KeptMissing
          /\ tracks[k].missing = 1
          /\ out[k].box # lastDets[1].box
          /\ out[k].box = lastMatched[tracks[k].id].box

\* the detections of the last call with no track that entered the call within
\* the threshold
Unmatched == {k \in 1..Len(lastDets) : NoTrackNear(Centroid(lastDets[k].box))}

\* C32: matching uses only the tracks that entered the call.  A detection with
\* no such track within dist_threshold is given the next new id, counting the
\* new ids from next_id in input order, whether or not an earlier detection of
\* the call lies within the threshold; every other detection is given the id of
\* a track that entered the call and is within the threshold.  The call
\* allocates exactly one id per detection of the first kind and keeps a track
\* for each with that detection's data.
C32_MatchAgainstPreTickTracks ==
    /\ \A k \in 1..Len(lastDets) :
          IF k \in Unmatched
          THEN /\ assigned[k] = prevNextId + Cardinality({j \in Unmatched : j < k})
               /\ \E j \in 1..Len(tracks) :
                     /\ tracks[j].id = assigned[k]
                     /\ tracks[j].box = lastDets[k].box
                     /\ tracks[j].missing = 0
          ELSE \E t \in 1..Len(prevTracks) :
                  /\ prevTracks[t].id = assigned[k]
                  /\ Dist2(Centroid(lastDets[k].box), prevTracks[t].centroid)
                        < dist_threshold * dist_threshold
    /\ next_id = prevNextId + Cardinality(Unmatched)
    /\ Cardinality({j \in 1..Len(tracks) : tracks[j].id >= prevNextId})
          = Cardinality(Unmatched)

\* a call on a tracker that had tracks got two detections within the threshold
\* of each other, far from every track, and gave them two consecutive new ids
C32_Witness ==
    /\ Len(lastDets) = 2
    /\ Unmatched = {1, 2}
    /\ Dist2(Centroid(lastDets[1].box), Centroid(lastDets[2].box))
          < dist_threshold * dist_threshold
    /\ lastDets[1] # lastDets[2]
    /\ Len(prevTracks) >= 1
    /\ assigned = <<prevNextId, prevNextId + 1>>
    /\ next_id = prevNextId + 2

\* C33: the missing counter.  After a call, every track kept has a counter
\* between 0 and max_missing_frames; the counter is 0 exactly for the tracks
\* that a detection of the call was stored under (matched or created), and a
\* kept track that got no detection entered the call as a track and has a
\* counter one above the one it entered with.
C33_MissingCounterInvariant ==
    \A k \in 1..Len(tracks) :
        /\ tracks[k].missing >= 0
        /\ tracks[k].missing <= max_missing_frames
        /\ tracks[k].missing = 0 <=> ClaimedBy(tracks[k].id) # {}
        /\ ClaimedBy(tracks[k].id) = {} =>
              \E j \in 1..Len(prevTracks) :
                  /\ prevTracks[j].id = tracks[k].id
                  /\ tracks[k].missing = prevTracks[j].missing + 1

\* a call kept one track it matched, one it created and one that it gave no
\* detection for the second time in a row or later
C33_Witness ==
    /\ Len(tracks) = 3
    /\ \E a, b, c \in 1..3 :
          /\ tracks[a].missing = 0 /\ tracks[a].id < prevNextId
          /\ tracks[b].missing = 0 /\ tracks[b].id >= prevNextId
          /\ tracks[c].missing >= 2 /\ ClaimedBy(tracks[c].id) = {}
          /\ tracks[c].missing <= max_missing_frames

----------------------------------------------------------------------------
(* Properties of AlertManager.evaluate, stated on the state after a call   *)

\* C6 as stated: from a fresh AlertManager, calls with non-empty general
\* candidates at t0, then at a time from t0 up to but below t0 + general_cooldown,
\* then at t0 + general_cooldown, give a general alert on the first call, none
\* on the second and one on the third.
C6_CooldownGatingFromFresh ==
    LET n == Len(callLog)
        t0 == callLog[1].timestamp
    IN  /\ (n >= 1 /\ callLog[1].candidates) => callLog[1].alerted
        /\ (/\ n >= 2 /\ callLog[1].candidates /\ callLog[2].candidates
            /\ callLog[2].timestamp >= t0
            /\ callLog[2].timestamp < t0 + general_cooldown) => ~callLog[2].alerted
        /\ (/\ n >= 3 /\ callLog[1].candidates /\ callLog[2].candidates
            /\ callLog[3].candidates
            /\ callLog[2].timestamp >= t0
            /\ callLog[2].timestamp < t0 + general_cooldown
            /\ callLog[3].timestamp = t0 + general_cooldown) => callLog[3].alerted

GeneralIndexes == {k \in 1..Len(alerts) : alerts[k].type = "general"}

LingerIndexes == {k \in 1..Len(alerts) : alerts[k].type = "linger"}

\* C15 as stated: the last call returned a general alert iff its general list
\* was non-empty and timestamp - last_general >= general_cooldown, for the
\* timestamp it was passed and the last_general it found; then there is exactly
\* one general alert, it carries the passed general list, and last_general is
\* the call's timestamp.
C15_GeneralAlertRule ==
    /\ HasGeneral(alerts) <=>
           /\ Len(lastGeneralArg) > 0
           /\ lastTimestamp - prevLastGeneral >= general_cooldown
    /\ Cardinality(GeneralIndexes) <= 1
    /\ \A k \in GeneralIndexes : alerts[k].objects = lastGeneralArg
    /\ HasGeneral(alerts) => last_general = lastTimestamp

\* C16 as stated: with non-decreasing timestamps passed, the timestamps of two
\* consecutive calls that returned a general alert differ by at least
\* general_cooldown.
C16_MinimumSpacing ==
    Len(generalTimes) = 2 => generalTimes[2] - generalTimes[1] >= general_cooldown

\* C17: the list returned by the last call starts with one linger alert per
\* event passed, in input order, each carrying that single event; whatever
\* follows is a general alert, and this holds whether or not the cooldown let
\* a general alert through.
C17_LingerPassThrough ==
    /\ Len(alerts) >= Len(lastLingerArg)
    /\ \A k \in 1..Len(lastLingerArg) :
           alerts[k] = [type |-> "linger", objects |-> <<lastLingerArg[k]>>]
    /\ LingerIndexes = 1..Len(lastLingerArg)

C17_Witness ==
    /\ Len(lastLingerArg) = 2
    /\ lastLingerArg[1] # lastLingerArg[2]
    /\ Len(lastGeneralArg) > 0
    /\ ~HasGeneral(alerts)
    /\ Len(alerts) = 2

\* C19: a call given linger events returns a general alert exactly when one
\* given none would: iff the general list is non-empty and the cooldown has
\* elapsed (line 36, on the timestamp the method works with after line 27).
\* Then the result is the linger alerts followed by one general alert whose
\* objects are the passed general list, with no linger event in it.
C19_LingerAndGeneralCoexist ==
    Len(lastLingerArg) > 0 =>
        IF Len(lastGeneralArg) > 0 /\ lastEffTimestamp - prevLastGeneral >= general_cooldown
        THEN /\ Len(alerts) = Len(lastLingerArg) + 1
             /\ alerts[Len(alerts)] = [type |-> "general", objects |-> lastGeneralArg]
             /\ \A k \in 1..Len(lastLingerArg) : alerts[k].type = "linger"
        ELSE \A k \in 1..Len(alerts) : alerts[k].type = "linger"

C19_Witness ==
    /\ Len(lastLingerArg) = 1
    /\ Len(lastGeneralArg) = 1
    /\ lastGeneralArg[1].label = "dog"
    /\ Len(alerts) = 2
    /\ alerts[1].type = "linger"
    /\ alerts[2] = [type |-> "general", objects |-> lastGeneralArg]

\* C34: the frame condition of the cooldown state.  A call of evaluate that
\* returns no general alert leaves last_general as it was, whatever linger
\* events it was given; that is the case when the general list is empty or the
\* time since last_general, taken from the value of timestamp after line 27, is
\* below general_cooldown.  last_general differs after a call only if the call
\* returned a general alert, and general_cooldown is never written.
C34_CooldownFrameCondition ==
    [][/\ ~HasGeneral(alerts') => last_general' = last_general
       /\ last_general' # last_general => HasGeneral(alerts')
       /\ (\/ Len(lastGeneralArg') = 0
           \/ lastEffTimestamp' - last_general < general_cooldown)
             => (~HasGeneral(alerts') /\ last_general' = last_general)
       /\ general_cooldown' = general_cooldown
      ]_vars

\* a call with general candidates and linger events, made before the cooldown
\* ran out, returned the linger alerts only and left last_general as it was
C34_Witness ==
    /\ Len(lastGeneralArg) > 0
    /\ Len(lastLingerArg) = 2
    /\ Len(alerts) = 2
    /\ ~HasGeneral(alerts)
    /\ prevLastGeneral > 0
    /\ lastTimestamp > prevLastGeneral
    /\ last_general = prevLastGeneral

----------------------------------------------------------------------------
(* Properties of the pipeline, stated on the state after a tick            *)

ScenarioEvent ==
    [id |-> 0, duration |-> DefaultLingerTime, box |-> BoxMid, label |-> "person"]

\* C3 as stated: with ROI (100,100,200,200), linger_time 5 and dist_threshold 50,
\* feeding one person centred at (150,150) at now = 0,1,2,3,4,5: the Tracker gives
\* it id 0 on every tick, LingerDetector emits nothing on ticks 0..4 and emits
\* the event {id 0, duration 5, person} on tick 5, for which AlertManager returns
\* exactly one linger alert carrying it.
C3_EndToEndScenario ==
    /\ scenario >= 1 =>
           /\ assigned = <<0>>
           /\ Len(out) = 1 /\ out[1].id = 0
    /\ (scenario >= 1 /\ scenario < ScenarioLength) => events = <<>>
    /\ scenario = ScenarioLength =>
           /\ events = <<ScenarioEvent>>
           /\ alerts = <<Alert("linger", <<ScenarioEvent>>)>>

\* C18: after every tick, the general list passed to AlertManager.evaluate is
\* the tick's detections when LingerDetector.update returned no event in the
\* tick, and otherwise the tick's detections without those labelled "person",
\* every other detection being kept, in order.
C18_PersonSuppression ==
    /\ lastLingerArg = events
    /\ Len(events) = 0 => lastGeneralArg = last_detections
    /\ Len(events) > 0 =>
           /\ \A k \in 1..Len(lastGeneralArg) : lastGeneralArg[k].label # "person"
           /\ lastGeneralArg = SelectSeq(last_detections, LAMBDA d : d.label # "person")

C18_Witness ==
    /\ Len(events) > 0
    /\ Len(last_detections) = 2
    /\ last_detections[1].label = "person"
    /\ lastGeneralArg = <<last_detections[2]>>
    /\ HasGeneral(alerts)

\* C7 as stated: no component reads a clock itself, so every time value held
\* in the state or returned is the timestamp the caller passed: a residency
\* record created by a call carries that call's now, a general alert stamps
\* last_general with that call's timestamp.
C7_ExplicitTimeOnly ==
    /\ clockReads = {}
    /\ \A i \in DOMAIN objects_in_roi \ preIds : objects_in_roi[i].enter_time = lastNow
    /\ HasGeneral(alerts) => last_general = lastTimestamp

\* C31: dwell accrues while a track is missing.  In a tick that leaves a track
\* unmatched but retained (missing between 1 and max_missing_frames), the track
\* is handed to LingerDetector.update with the box it had before the tick; when
\* that box's centroid is inside the ROI its residency record exists before and
\* after the tick with the same enter_time while the time the duration is
\* measured to does not go back (and moves on after a tick with a non-zero
\* now), and the tick returns an event for it exactly when that duration
\* exceeds linger_time and none was emitted for the record yet.
C31_DwellAccruesWhileMissing ==
    [][\A k \in 1..Len(tracks') :
          tracks'[k].missing >= 1 =>
            /\ tracks'[k].missing <= max_missing_frames
            /\ \E j \in 1..Len(tracks) :
                  /\ tracks[j].id = tracks'[k].id
                  /\ tracks'[k].box = tracks[j].box
            /\ \E i \in 1..Len(lastTracked') :
                  /\ lastTracked'[i].id = tracks'[k].id
                  /\ lastTracked'[i].box = tracks'[k].box
            /\ InRoi(roi, tracks'[k].box) =>
                  /\ tracks'[k].id \in DOMAIN objects_in_roi
                  /\ tracks'[k].id \in DOMAIN objects_in_roi'
                  /\ objects_in_roi'[tracks'[k].id].enter_time =
                         objects_in_roi[tracks'[k].id].enter_time
                  /\ lastEff' >= lastEff
                  /\ lastNow # 0 => lastEff' > lastEff
                  /\ HasEvent(events', tracks'[k].id) <=>
                        /\ lastEff' - objects_in_roi[tracks'[k].id].enter_time > linger_time
                        /\ ~objects_in_roi[tracks'[k].id].alert_emitted
            /\ ~InRoi(roi, tracks'[k].box) => ~HasEvent(events', tracks'[k].id)
      ]_vars

\* a tick whose detection list was empty kept the person's track as missing and
\* returned the linger event for it
C31_Witness ==
    /\ lastDets = <<>>
    /\ Len(tracks) = 1
    /\ tracks[1].missing = 1
    /\ InRoi(roi, tracks[1].box)
    /\ lastTracked = out
    /\ HasEvent(events, tracks[1].id)
    /\ objects_in_roi[tracks[1].id].alert_emitted

----------------------------------------------------------------------------
(* Properties of several CameraThreads                                     *)

\* the component state of camera d's thread in heap h
CameraState(h, t, d) ==
    <<h[t[d].tracker].tracks, h[t[d].tracker].next_id,
      h[t[d].linger].objects_in_roi, h[t[d].alert_mgr].last_general>>

\* C21: the threads hold pairwise distinct Tracker, LingerDetector and
\* AlertManager objects, and a step in which the loop body of camera c runs
\* leaves the tracks, next_id, residency records and last_general of every
\* other camera as they were.
C21_CrossCameraIsolation ==
    [][/\ \A c, d \in DOMAIN threads :
             c # d => /\ threads[c].tracker # threads[d].tracker
                      /\ threads[c].linger # threads[d].linger
                      /\ threads[c].alert_mgr # threads[d].alert_mgr
       /\ \A c \in Cams, d \in DOMAIN threads :
             (lastCam' = c /\ d # c)
             => CameraState(heap', threads', d) = CameraState(heap, threads, d)]_vars

C21_Witness ==
    /\ DOMAIN threads = Cams
    /\ lastCam = 2
    /\ Len(heap[threads[1].tracker].tracks) = 1
    /\ DOMAIN heap[threads[1].linger].objects_in_roi # {}
    /\ heap[threads[1].alert_mgr].last_general > 0
    /\ heap[threads[2].tracker].next_id = 1
    /\ heap[threads[2].alert_mgr].last_general > heap[threads[1].alert_mgr].last_general

----------------------------------------------------------------------------
(* Properties of CameraThread.run, stated on the statement the thread is at *)

\* the thread is between two passes of the loop body, or has left the loop
BetweenTicks == pc \in {"loop", "read", "detect", "cleanup", "done"}

\* C22: cancellation only at tick boundaries.  Whenever the thread is between
\* two passes of the loop body or has left the loop, the last pass that
\* obtained a frame (if any) has made all of its calls: Tracker.update,
\* LingerDetector.update and AlertManager.evaluate, also when the stop event
\* was set while that pass was running; the loop is only ever left from the
\* while test or from the display statement that ends a pass.
C22_CancellationAtTickBoundary ==
    /\ BetweenTicks => tickCalls \in {<<>>, FullTick}
    /\ (BetweenTicks /\ tickCalls = FullTick) =>
          /\ lastDets = runLocals.detections
          /\ lastTracked = runLocals.tracked
          /\ lastLingerArg = runLocals.linger_events
    /\ (stop_event /\ stopAt \in {"tracker", "linger", "alert"}) =>
          (pc \in {"cleanup", "done"} => tickCalls = FullTick)

\* the stop event was set after tracker.update and before linger.update of a
\* pass, and the thread has left the loop with all three calls of that pass made
C22_Witness ==
    /\ pc = "done"
    /\ stopAt = "linger"
    /\ tickCalls = FullTick
    /\ Len(tracks) > 0
    /\ lastTracked = out
    /\ Len(callLog) > 0

\* C26: one-way data flow in a pass of the loop body that obtained a frame.
\* The calls are made once each in the order now = time.monotonic(),
\* Tracker.update, LingerDetector.update, AlertManager.evaluate; the tracker
\* gets the detections of the pass, the linger detector the list the tracker
\* returned, the alert manager the events the linger detector returned, and
\* both timestamped calls get the value of now read at the start of the pass.
C26_OneWayDataFlow ==
    /\ pc = "tracker" => tickCalls = SubSeq(FullTick, 1, 1)
    /\ pc = "linger" =>
          /\ tickCalls = SubSeq(FullTick, 1, 2)
          /\ lastDets = runLocals.detections
          /\ runLocals.tracked = out
    /\ pc = "alert" =>
          /\ tickCalls = SubSeq(FullTick, 1, 3)
          /\ lastDets = runLocals.detections
          /\ lastTracked = out
          /\ lastNow = runLocals.now
          /\ runLocals.linger_events = events
    /\ pc = "display" =>
          /\ tickCalls = FullTick
          /\ lastDets = runLocals.detections
          /\ lastTracked = out
          /\ lastLingerArg = events
          /\ lastNow = runLocals.now
          /\ lastTimestamp = runLocals.now

\* a pass has made its three calls at a non-zero now after the clock moved on
\* during the pass, with a tracked object and a linger event flowing through
C26_Witness ==
    /\ pc = "display"
    /\ tickCalls = FullTick
    /\ Len(out) > 0
    /\ Len(events) > 0
    /\ lastLingerArg = events
    /\ runLocals.now > 0
    /\ mono > runLocals.now
    /\ lastTimestamp = runLocals.now

----------------------------------------------------------------------------
(* Properties of the creation of a CameraThread                            *)

\* C25: optional ROI.  For a camera configured without an ROI, CameraThread(...)
\* returns a thread with its components built and raises nothing.
C25_OptionalRoi ==
    (cam_cfg.roi = NoRoi /\ ctorState # "new") =>
        (ctorState = "built" /\ raised = NoException)

----------------------------------------------------------------------------
(* Properties of CameraManager.read_frame, stated on the state after a call *)

\* C29 as stated: a read_frame call whose read fails leaves the capture closed
\* and returns None; a call made while disconnected returns None; a call
\* attempts a connection only while disconnected, at least reconnect_interval
\* after the previous attempt, and at least reconnect_interval after the failed
\* read that closed the capture.
C29_Reconnection ==
    /\ lastRead.failed => (~cap_open /\ lastRead.result = "None")
    /\ ~lastRead.connected_before => lastRead.result = "None"
    /\ lastRead.attempted =>
          /\ ~lastRead.connected_before
          /\ Len(attempts) = 2
          /\ attempts[2] - attempts[1] >= reconnect_interval
    /\ (lastRead.attempted /\ lastRead.since_fail # NoTime) =>
          lastRead.t - lastRead.since_fail >= reconnect_interval
====
